---- MODULE Spec2Model ----
(***************************************************************************)
(* The retrieval subsystem of automate-job-application: the embedding      *)
(* provider (rag/embeddings.py), the FAISS vector store                    *)
(* (rag/vector_store.py) and the resume retriever (rag/retriever.py).      *)
(*                                                                         *)
(* A text is the sequence of its lines (text.split('\n') and '\n'.join are *)
(* inverse on it); a line is a record saying which of the chunker's two    *)
(* regular expressions matches it and what the section pattern captures.   *)
(* An embedding is a sequence of numbers; None is kept apart from the      *)
(* empty list.                                                             *)
(***************************************************************************)
EXTENDS Integers, Sequences, FiniteSets, TLC

\* ------------------------------------------------------------------ bounds
MaxLines == 2      \* lines of a resume text
MaxDim == 2        \* longest embedding the provider returns
MaxComp == 1       \* embedding components range over 0..MaxComp
MaxStore == 2      \* texts a vector store may hold before indexing stops
MaxK == 3          \* largest num_chunks asked for
PersistLines == 1  \* the same three where the directory is modelled too
PersistStore == 1
PersistK == 1
MaxDocLines == 4   \* lines of a document given to the chunker alone
AppendLines == 1   \* the same for the specification of growth with save and load
AppendStore == 2
AppendK == 1
AppLines == 1      \* lines of the master resume process_job_application reads

\* --------------------------------------------------------------- data model
None == "None"

SectionNames == {"Experience", "Education"}

\* The lines of a resume: a \section{name} line, a \resumeSubheading{..}{..}{..}{..}
\* line, and a line neither pattern matches.
Lines ==
  [kind : {"section"}, name : SectionNames]
    \cup {[kind |-> "subsection", name |-> ""], [kind |-> "plain", name |-> ""]}

SeqUpTo(S, n) == UNION {[1..m -> S] : m \in 0..n}

\* text.split('\n') never yields the empty list: the empty text is one empty line.
Resumes(n) == SeqUpTo(Lines, n) \ {<<>>}

\* ------------------------------------------------------- rag/retriever.py
\* re.match(section_pattern, line): the captured name, or None.
section_match(line) == IF line.kind = "section" THEN line.name ELSE None

\* re.match(subsection_pattern, line) is not None.
subsection_match(line) == line.kind = "subsection"

Chunk(current_text, current_section) ==
  [text |-> current_text, metadata |-> [section |-> current_section]]

\* chunk_line, had a section line saved the lines before it as a chunk
\* whether or not a section was open.
chunk_line_keeping(st, line) ==
  IF section_match(line) # None
  THEN [chunks |-> IF st.current_text # <<>>
                   THEN Append(st.chunks, Chunk(st.current_text, st.current_section))
                   ELSE st.chunks,
        current_section |-> section_match(line),
        current_text |-> <<line>>]
  ELSE IF subsection_match(line) /\ st.current_section # None
  THEN [chunks |-> IF st.current_text # <<>>
                   THEN Append(st.chunks, Chunk(st.current_text, st.current_section))
                   ELSE st.chunks,
        current_section |-> st.current_section,
        current_text |-> <<line>>]
  ELSE [st EXCEPT !.current_text = Append(@, line)]

\* chunk_line, had a subsection line started a chunk whether or not a
\* section was open.
chunk_line_eager(st, line) ==
  IF section_match(line) # None
  THEN [chunks |-> IF st.current_section # None /\ st.current_text # <<>>
                   THEN Append(st.chunks, Chunk(st.current_text, st.current_section))
                   ELSE st.chunks,
        current_section |-> section_match(line),
        current_text |-> <<line>>]
  ELSE IF subsection_match(line)
  THEN [chunks |-> IF st.current_text # <<>>
                   THEN Append(st.chunks, Chunk(st.current_text, st.current_section))
                   ELSE st.chunks,
        current_section |-> st.current_section,
        current_text |-> <<line>>]
  ELSE [st EXCEPT !.current_text = Append(@, line)]

\* chunk_line, had a section line changed the section's name and joined the
\* lines before it instead of starting a chunk.
chunk_line_joining(st, line) ==
  IF section_match(line) # None
  THEN [chunks |-> st.chunks,
        current_section |-> section_match(line),
        current_text |-> Append(st.current_text, line)]
  ELSE IF subsection_match(line) /\ st.current_section # None
  THEN [chunks |-> IF st.current_text # <<>>
                   THEN Append(st.chunks, Chunk(st.current_text, st.current_section))
                   ELSE st.chunks,
        current_section |-> st.current_section,
        current_text |-> <<line>>]
  ELSE [st EXCEPT !.current_text = Append(@, line)]

\* chunk_line, had a subsection line been a line like any other.
chunk_line_nosub(st, line) ==
  IF section_match(line) # None
  THEN [chunks |-> IF st.current_section # None /\ st.current_text # <<>>
                   THEN Append(st.chunks, Chunk(st.current_text, st.current_section))
                   ELSE st.chunks,
        current_section |-> section_match(line),
        current_text |-> <<line>>]
  ELSE [st EXCEPT !.current_text = Append(@, line)]

\* One iteration of the loop of _chunk_resume over the state
\* (chunks, current_section, current_text).
chunk_line(st, line) ==
  IF section_match(line) # None
  THEN [chunks |-> IF st.current_section # None /\ st.current_text # <<>>
                   THEN Append(st.chunks, Chunk(st.current_text, st.current_section))
                   ELSE st.chunks,
        current_section |-> section_match(line),
        current_text |-> <<line>>]
  ELSE IF subsection_match(line) /\ st.current_section # None
  THEN [chunks |-> IF st.current_text # <<>>
                   THEN Append(st.chunks, Chunk(st.current_text, st.current_section))
                   ELSE st.chunks,
        current_section |-> st.current_section,
        current_text |-> <<line>>]
  ELSE [st EXCEPT !.current_text = Append(@, line)]

RECURSIVE chunk_loop(_, _)
chunk_loop(st, lines) ==
  IF lines = <<>> THEN st ELSE chunk_loop(chunk_line(st, Head(lines)), Tail(lines))

\* _chunk_resume, had it returned without saving the last chunk.
chunk_resume_noflush(text) ==
  chunk_loop([chunks |-> <<>>, current_section |-> None, current_text |-> <<>>],
             text).chunks

\* _chunk_resume, had it saved the last lines whether or not a section was open.
chunk_resume_implicit(text) ==
  LET st == chunk_loop([chunks |-> <<>>, current_section |-> None,
                        current_text |-> <<>>], text)
  IN  IF st.current_text # <<>>
      THEN Append(st.chunks, Chunk(st.current_text, st.current_section))
      ELSE st.chunks

\* ResumeRetriever._chunk_resume
chunk_resume(text) ==
  LET st == chunk_loop([chunks |-> <<>>, current_section |-> None,
                        current_text |-> <<>>], text)
  IN  IF st.current_section # None /\ st.current_text # <<>>
      THEN Append(st.chunks, Chunk(st.current_text, st.current_section))
      ELSE st.chunks

\* ------------------------------------------------------ rag/embeddings.py
\* What _call_ollama returns: None (the request or its parsing failed, or the
\* response carries no embedding), or the response's embedding, a list of
\* MaxDim numbers at most, possibly empty.
Embeddings == SeqUpTo(0..MaxComp, MaxDim)

NoneResponse == [none |-> TRUE, v |-> <<>>]

\* What a run of curl brings back: nothing usable (curl could not be run or
\* printed nothing), output that is not JSON, JSON without an "embedding"
\* key, or JSON with an embedding.
RawResponses ==
  {[kind |-> k, v |-> <<>>] : k \in {"no_output", "not_json", "no_embedding_key"}}
    \cup {[kind |-> "embedding", v |-> e] : e \in Embeddings}

\* OllamaEmbeddings._call_ollama: response.get('embedding'), or None when the
\* key is missing or when json.loads or subprocess.run raised.
call_ollama(raw) ==
  IF raw.kind = "embedding" THEN [none |-> FALSE, v |-> raw.v] ELSE NoneResponse

\* The values _call_ollama returns.
Responses == {call_ollama(raw) : raw \in RawResponses}

\* Python's truth value of a response: None and the empty list are false.
Truthy(r) == ~r.none /\ r.v # <<>>

\* The texts sent to the provider: the text "test" of the calibration and
\* the job description are texts of one line.
TestPrompt == <<[kind |-> "plain", name |-> "test"]>>

JobDescription == <<[kind |-> "plain", name |-> "job_description"]>>

\* The requests _call_ollama(text) sends: one run of curl, whatever comes back.
call_ollama_requests(text) == <<text>>

RECURSIVE embed_documents_requests_retrying(_, _)
\* embed_documents, had it sent the request of a failed text a second time.
embed_documents_requests_retrying(texts, responses) ==
  IF texts = <<>> THEN <<>>
  ELSE (IF Truthy(Head(responses))
        THEN call_ollama_requests(Head(texts))
        ELSE call_ollama_requests(Head(texts)) \o call_ollama_requests(Head(texts)))
       \o embed_documents_requests_retrying(Tail(texts), Tail(responses))

RECURSIVE embed_documents_requests(_, _)
\* The requests embed_documents(texts) sends, given the response to each
\* text's request: _call_ollama once for each text of the loop, in order.
embed_documents_requests(texts, responses) ==
  IF texts = <<>> THEN <<>>
  ELSE call_ollama_requests(Head(texts))
         \o embed_documents_requests(Tail(texts), Tail(responses))

\* The requests embed_query(text) sends.
embed_query_requests(text) == call_ollama_requests(text)

\* The requests get_embedding_dimension() sends.
get_embedding_dimension_requests == call_ollama_requests(TestPrompt)

RECURSIVE embed_documents_keeping_empty(_)
\* embed_documents, had it skipped None only and kept an empty embedding.
embed_documents_keeping_empty(responses) ==
  IF responses = <<>> THEN <<>>
  ELSE IF ~Head(responses).none
       THEN <<Head(responses).v>> \o embed_documents_keeping_empty(Tail(responses))
       ELSE embed_documents_keeping_empty(Tail(responses))

RECURSIVE embed_documents_stopping(_)
\* embed_documents, had it stopped at the first text whose request failed.
embed_documents_stopping(responses) ==
  IF responses = <<>> THEN <<>>
  ELSE IF Truthy(Head(responses))
       THEN <<Head(responses).v>> \o embed_documents_stopping(Tail(responses))
       ELSE <<>>

RECURSIVE embed_documents(_)
\* OllamaEmbeddings.embed_documents, given the response to each text's request
\* in order: the truthy embeddings are appended, the others skipped.
embed_documents(responses) ==
  IF responses = <<>> THEN <<>>
  ELSE IF Truthy(Head(responses))
       THEN <<Head(responses).v>> \o embed_documents(Tail(responses))
       ELSE embed_documents(Tail(responses))

\* OllamaEmbeddings.get_embedding_dimension; 0 stands for None (both are false
\* to `not self.dimension`, and a truthy list has a length of 1 at least).
get_embedding_dimension(test_embedding) ==
  IF Truthy(test_embedding) THEN Len(test_embedding.v) ELSE 0

\* --------------------------------------------------- rag/vector_store.py
\* FAISSVectorStore.__init__: an IndexFlatL2 of the dimension, holding nothing.
FAISSVectorStore(embedding_dim) ==
  [dimension |-> embedding_dim,
   index |-> [d |-> embedding_dim, xb |-> <<>>],
   texts |-> <<>>,
   metadata |-> <<>>]

\* np.array(embeddings).astype('float32') fails on rows of unequal length.
Ragged(embeddings) ==
  \E i, j \in 1..Len(embeddings) : Len(embeddings[i]) # Len(embeddings[j])

\* add_texts, had it assigned the new texts and metadata instead of
\* extending the lists with them.
add_texts_replacing(vs, texts, embeddings, metadatas) ==
  IF texts = <<>> \/ embeddings = <<>>
  THEN [vs |-> vs, raised |-> ""]
  ELSE IF Ragged(embeddings)
  THEN [vs |-> vs, raised |-> "ValueError"]
  ELSE IF Len(embeddings[1]) # vs.index.d
  THEN [vs |-> vs, raised |-> "AssertionError"]
  ELSE [vs |-> [vs EXCEPT !.index.xb = @ \o embeddings,
                          !.texts = texts,
                          !.metadata = metadatas],
        raised |-> ""]

\* add_texts, had it returned early for an empty texts list only: with no
\* embeddings the texts and metadata are still appended.
add_texts_textsonly(vs, texts, embeddings, metadatas) ==
  IF texts = <<>>
  THEN [vs |-> vs, raised |-> ""]
  ELSE IF embeddings = <<>>
  THEN [vs |-> [vs EXCEPT !.texts = @ \o texts, !.metadata = @ \o metadatas],
        raised |-> ""]
  ELSE IF Ragged(embeddings)
  THEN [vs |-> vs, raised |-> "ValueError"]
  ELSE IF Len(embeddings[1]) # vs.index.d
  THEN [vs |-> vs, raised |-> "AssertionError"]
  ELSE [vs |-> [vs EXCEPT !.index.xb = @ \o embeddings,
                          !.texts = @ \o texts,
                          !.metadata = @ \o metadatas],
        raised |-> ""]

\* FAISSVectorStore.add_texts with a metadatas list: the store afterwards and
\* the exception raised ("" when none). index.add asserts that the rows have
\* the index's dimension before it stores any of them.
add_texts(vs, texts, embeddings, metadatas) ==
  IF texts = <<>> \/ embeddings = <<>>
  THEN [vs |-> vs, raised |-> ""]
  ELSE IF Ragged(embeddings)
  THEN [vs |-> vs, raised |-> "ValueError"]
  ELSE IF Len(embeddings[1]) # vs.index.d
  THEN [vs |-> vs, raised |-> "AssertionError"]
  ELSE [vs |-> [vs EXCEPT !.index.xb = @ \o embeddings,
                          !.texts = @ \o texts,
                          !.metadata = @ \o metadatas],
        raised |-> ""]

\* The squared Euclidean distance IndexFlatL2 reports.
RECURSIVE L2sqr(_, _)
L2sqr(x, y) ==
  IF x = <<>> THEN 0
  ELSE (Head(x) - Head(y)) * (Head(x) - Head(y)) + L2sqr(Tail(x), Tail(y))

\* The distance faiss reports beside the label -1 of a missing neighbour
\* (float32 max): larger than every distance between stored vectors.
FLT_MAX == 1000000

\* Nearer, had the search returned the stored vectors in insertion order.
Nearer_inserted(xb, q, i, j) == i < j

\* Whether stored vector i comes before stored vector j in the result for q:
\* nearer first, the earlier-inserted first among equally near ones.
Nearer(xb, q, i, j) ==
  \/ L2sqr(xb[i], q) < L2sqr(xb[j], q)
  \/ L2sqr(xb[i], q) = L2sqr(xb[j], q) /\ i < j

\* index.search(q, k) for one query: k [label, distance] pairs, the stored
\* vectors nearest first by 0-based label, then label -1 with FLT_MAX.
index_search(index, q, k) ==
  LET n == Len(index.xb)
      rank(i) == 1 + Cardinality({j \in 1..n : Nearer(index.xb, q, j, i)})
      at(r) == CHOOSE i \in 1..n : rank(i) = r
  IN  [r \in 1..k |->
         IF r <= n
         THEN [label |-> at(r) - 1, distance |-> L2sqr(index.xb[at(r)], q)]
         ELSE [label |-> -1, distance |-> FLT_MAX]]

\* Python's list[idx] is defined for -len <= idx < len.
InRange(list, idx) == -Len(list) <= idx /\ idx < Len(list)

PyIndex(list, idx) == IF idx >= 0 THEN list[idx + 1] ELSE list[Len(list) + idx + 1]

RECURSIVE search_loop_skipping(_, _, _)
\* search_loop, had it passed over the label -1 instead of indexing with it.
search_loop_skipping(vs, found, acc) ==
  IF found = <<>> THEN [value |-> acc, raised |-> ""]
  ELSE LET idx == Head(found).label
       IN  IF 0 <= idx /\ idx < Len(vs.texts)
           THEN search_loop_skipping(vs, Tail(found),
                  Append(acc, [text |-> PyIndex(vs.texts, idx),
                               metadata |-> PyIndex(vs.metadata, idx),
                               distance |-> Head(found).distance]))
           ELSE search_loop_skipping(vs, Tail(found), acc)

RECURSIVE search_loop(_, _, _)
\* The loop of similarity_search over the (label, distance) pairs: the results
\* so far and the exception raised.
search_loop(vs, found, acc) ==
  IF found = <<>> THEN [value |-> acc, raised |-> ""]
  ELSE LET idx == Head(found).label
       IN  IF idx < Len(vs.texts)
           THEN IF InRange(vs.texts, idx) /\ InRange(vs.metadata, idx)
                THEN search_loop(vs, Tail(found),
                       Append(acc, [text |-> PyIndex(vs.texts, idx),
                                    metadata |-> PyIndex(vs.metadata, idx),
                                    distance |-> Head(found).distance]))
                ELSE [value |-> <<>>, raised |-> "IndexError"]
           ELSE search_loop(vs, Tail(found), acc)

\* FAISSVectorStore.similarity_search: index.search asserts that the query
\* has the index's dimension.
similarity_search(vs, query_embedding, k) ==
  IF Len(query_embedding) # vs.index.d
  THEN [value |-> <<>>, raised |-> "AssertionError"]
  ELSE search_loop(vs, index_search(vs.index, query_embedding, k), <<>>)

\* ------------------------------------------- rag/retriever.py, continued
\* No retriever: the latest construction raised, or none was attempted yet.
NoRetriever == [live |-> FALSE, dimension |-> 0, vector_store |-> FAISSVectorStore(0)]

\* ResumeRetriever.__init__, had it not checked the dimension.
ResumeRetriever_unchecked(test_embedding) ==
  [retriever |-> [live |-> TRUE,
                  dimension |-> get_embedding_dimension(test_embedding),
                  vector_store |-> FAISSVectorStore(get_embedding_dimension(test_embedding))],
   raised |-> ""]

\* ResumeRetriever.__init__, given the response to the calibration request.
ResumeRetriever(test_embedding) ==
  LET dimension == get_embedding_dimension(test_embedding)
  IN  IF dimension = 0
      THEN [retriever |-> NoRetriever, raised |-> "ValueError"]
      ELSE [retriever |-> [live |-> TRUE, dimension |-> dimension,
                           vector_store |-> FAISSVectorStore(dimension)],
            raised |-> ""]

ChunkTexts(chunks) == [i \in 1..Len(chunks) |-> chunks[i].text]

ChunkMetadatas(chunks) == [i \in 1..Len(chunks) |-> chunks[i].metadata]

\* ResumeRetriever.index_resume, given the responses to the chunks' requests.
index_resume(r, resume_text, responses) ==
  LET chunks == chunk_resume(resume_text)
      texts == ChunkTexts(chunks)
      embeddings == embed_documents(responses)
      added == add_texts(r.vector_store, texts, embeddings, ChunkMetadatas(chunks))
  IN  [retriever |-> [r EXCEPT !.vector_store = added.vs], raised |-> added.raised]

\* get_relevant_experience, had it answered a failed embedding with no results.
get_relevant_experience_silent(r, query_embedding, num_chunks) ==
  IF ~Truthy(query_embedding)
  THEN [value |-> <<>>, raised |-> "", searched |-> FALSE]
  ELSE LET results == similarity_search(r.vector_store, query_embedding.v, num_chunks)
       IN  [value |-> results.value, raised |-> results.raised, searched |-> TRUE]

\* ResumeRetriever.get_relevant_experience, given the response to the job
\* description's request: the list returned, the exception raised, and
\* whether the vector store was searched.
get_relevant_experience(r, query_embedding, num_chunks) ==
  IF ~Truthy(query_embedding)
  THEN [value |-> <<>>, raised |-> "ValueError", searched |-> FALSE]
  ELSE LET results == similarity_search(r.vector_store, query_embedding.v, num_chunks)
       IN  [value |-> results.value, raised |-> results.raised, searched |-> TRUE]

\* ------------------------------------------------------------ persistence
\* A file of the directory: absent, or holding what was written to it.
NoIndexFile == [present |-> FALSE, d |-> 0, ntotal |-> 0, codes |-> <<>>]

NoDataFile == [present |-> FALSE, texts |-> <<>>, metadata |-> <<>>, dimension |-> 0]

RECURSIVE Flatten(_)
\* The rows of a list of lists, one after the other.
Flatten(rows) == IF rows = <<>> THEN <<>> ELSE Head(rows) \o Flatten(Tail(rows))

\* faiss.write_index(self.index, directory/index.faiss): the dimension, the
\* number of vectors and their components in one array.
write_index(index) ==
  [present |-> TRUE, d |-> index.d, ntotal |-> Len(index.xb), codes |-> Flatten(index.xb)]

\* faiss.read_index(directory/index.faiss): ntotal vectors of d components.
read_index(file) ==
  [d |-> file.d,
   xb |-> [i \in 1..file.ntotal |->
             SubSeq(file.codes, (i - 1) * file.d + 1, i * file.d)]]

\* pickle.dump of texts, metadata and dimension to directory/store_data.pkl
dump_store_data(vs) ==
  [present |-> TRUE, texts |-> vs.texts, metadata |-> vs.metadata,
   dimension |-> vs.dimension]

\* load_vector_store, had it kept the index its constructor made instead of
\* reading index.faiss.
load_vector_store_unread(dir) ==
  IF ~dir.store_data.present
  THEN [vs |-> FAISSVectorStore(0), raised |-> "FileNotFoundError"]
  ELSE IF ~dir.index_faiss.present
  THEN [vs |-> FAISSVectorStore(0), raised |-> "RuntimeError"]
  ELSE [vs |-> [FAISSVectorStore(dir.store_data.dimension)
                  EXCEPT !.texts = dir.store_data.texts,
                         !.metadata = dir.store_data.metadata],
        raised |-> ""]

\* load_vector_store, had it passed over a missing index.faiss and returned
\* the store with the index its constructor made.
load_vector_store_lenient(dir) ==
  IF ~dir.store_data.present
  THEN [vs |-> FAISSVectorStore(0), raised |-> "FileNotFoundError"]
  ELSE [vs |-> [dimension |-> dir.store_data.dimension,
                index |-> IF dir.index_faiss.present
                          THEN read_index(dir.index_faiss)
                          ELSE FAISSVectorStore(dir.store_data.dimension).index,
                texts |-> dir.store_data.texts,
                metadata |-> dir.store_data.metadata],
        raised |-> ""]

\* FAISSVectorStore.load: the side-table is opened first, then the index file.
load_vector_store(dir) ==
  IF ~dir.store_data.present
  THEN [vs |-> FAISSVectorStore(0), raised |-> "FileNotFoundError"]
  ELSE IF ~dir.index_faiss.present
  THEN [vs |-> FAISSVectorStore(0), raised |-> "RuntimeError"]
  ELSE [vs |-> [dimension |-> dir.store_data.dimension,
                index |-> read_index(dir.index_faiss),
                texts |-> dir.store_data.texts,
                metadata |-> dir.store_data.metadata],
        raised |-> ""]

\* load_retriever, had it read the directory before constructing the
\* retriever.
load_retriever_reading_first(test_embedding, dir) ==
  LET made == ResumeRetriever(test_embedding)
      loaded == load_vector_store(dir)
  IN  IF loaded.raised # ""
      THEN [retriever |-> NoRetriever, raised |-> loaded.raised]
      ELSE IF made.raised # "" THEN made
      ELSE [retriever |-> [made.retriever EXCEPT !.vector_store = loaded.vs],
            raised |-> ""]

\* ResumeRetriever.load: a fresh retriever is constructed, then its vector
\* store is replaced by the loaded one.
load_retriever(test_embedding, dir) ==
  LET made == ResumeRetriever(test_embedding)
      loaded == load_vector_store(dir)
  IN  IF made.raised # "" THEN made
      ELSE IF loaded.raised # ""
      THEN [retriever |-> NoRetriever, raised |-> loaded.raised]
      ELSE [retriever |-> [made.retriever EXCEPT !.vector_store = loaded.vs],
            raised |-> ""]

\* ----------------------------------------- main.py, agents/resume_agent.py
\* get_relevant_experience's default num_chunks
DefaultNumChunks == 3

\* A run in which nothing was called yet. The message of an exception is the
\* list of its parts, the wrapping "Failed to ..." prefixes first.
NoApp == [invoked |-> <<>>, failed |-> "", raised |-> <<>>, report |-> FALSE]

\* A statement of a try block that ignored the exception of the call it
\* made and went on to the next statement.
Outcome_swallowing(a, name, msg, next) ==
  [pc |-> next,
   app |-> IF msg = <<>> THEN [a EXCEPT !.invoked = Append(@, name)]
           ELSE [a EXCEPT !.invoked = Append(@, name), !.failed = name]]

\* A statement of the try block of process_job_application that calls name:
\* the next statement when the call returns; when it raises msg, the except
\* clause, which prints the message and raises it again.
Outcome(a, name, msg, next) ==
  IF msg = <<>>
  THEN [pc |-> next, app |-> [a EXCEPT !.invoked = Append(@, name)]]
  ELSE [pc |-> "raised",
        app |-> [a EXCEPT !.invoked = Append(@, name), !.failed = name, !.raised = msg]]

\* The prefix each method of ResumeAgent puts before the message of an
\* exception raised inside it.
FailedTo(name) ==
  CASE name = "_generate_resume_content" -> "Failed to generate resume content"
    [] name = "_generate_latex_content" -> "Failed to generate LaTeX content"
    [] name = "_compile_latex" -> "Failed to compile LaTeX"
    [] name = "_generate_supporting_documents" -> "Failed to generate supporting documents"
    [] name = "analyze_resume_optimization" -> "Failed to analyze resume optimization"
    [] OTHER -> "Failed to generate application documents"

\* generate_application_documents, had its methods raised their cause as it
\* was, without a prefix of their own.
Wrapped_bare(name, cause) ==
  IF cause = "" THEN <<>> ELSE <<FailedTo("generate_application_documents"), cause>>

\* The message with which generate_application_documents raises when the
\* method name it called raised for cause: the method's own prefix inside
\* that of generate_application_documents. No message when nothing was raised.
Wrapped(name, cause) ==
  IF cause = "" THEN <<>>
  ELSE <<FailedTo("generate_application_documents"), FailedTo(name), cause>>

\* ------------------------------------------------------------------ state
VARIABLES
  retriever,   \* the retriever the latest construction or load returned
  directory,   \* the save directory: its two files
  pc,          \* "idle", or "saving" between save's two writes
  last,        \* the latest call: name, arguments, exception, result
  hist,        \* whether index_resume / load was performed on the retriever
  document,    \* the text given to the chunker when it is called alone
  app          \* a run of process_job_application: the calls made, in order,
               \* the step that raised, the exception's message, the report

vars == <<retriever, directory, pc, last, hist, document, app>>

NoHist == [indexed |-> FALSE, restored |-> FALSE]

\* What is observed of a call: its name; the chunks it computed, the
\* provider's responses to its requests and its num_chunks; the exception
\* raised ("" when none); the list returned; whether the store was searched.
Call(op, chunks, responses, num_chunks, raised, value, searched, requests) ==
  [op |-> op, chunks |-> chunks, responses |-> responses, num_chunks |-> num_chunks,
   raised |-> raised, value |-> value, searched |-> searched, requests |-> requests]

Init ==
  /\ retriever = NoRetriever
  /\ directory = [index_faiss |-> NoIndexFile, store_data |-> NoDataFile]
  /\ pc = "idle"
  /\ last = Call("none", <<>>, <<>>, 0, "", <<>>, FALSE, <<>>)
  /\ hist = NoHist
  /\ document = <<>>
  /\ app = NoApp

\* retriever = ResumeRetriever()
Construct ==
  /\ pc = "idle"
  /\ \E test_embedding \in Responses :
       LET made == ResumeRetriever(test_embedding)
       IN  /\ retriever' = made.retriever
           /\ last' = Call("construct", <<>>, <<test_embedding>>, 0, made.raised, <<>>, FALSE,
                            get_embedding_dimension_requests)
  /\ hist' = NoHist
  /\ UNCHANGED <<directory, pc, document, app>>

\* retriever.index_resume(resume_text), for texts of maxLines lines at most
\* and while the store holds maxStore texts and vectors at most
IndexResumeOf(maxLines, maxStore) ==
  /\ pc = "idle"
  /\ retriever.live
  /\ \E resume_text \in Resumes(maxLines) :
       LET chunks == chunk_resume(resume_text)
       IN  /\ Len(retriever.vector_store.texts) + Len(chunks) <= maxStore
           /\ Len(retriever.vector_store.index.xb) + Len(chunks) <= maxStore
           /\ \E responses \in [1..Len(chunks) -> Responses] :
                LET done == index_resume(retriever, resume_text, responses)
                IN  /\ retriever' = done.retriever
                    /\ last' = Call("index_resume", chunks, responses, 0,
                                    done.raised, <<>>, FALSE,
                                    embed_documents_requests(ChunkTexts(chunks),
                                                             responses))
  /\ hist' = [hist EXCEPT !.indexed = TRUE]
  /\ UNCHANGED <<directory, pc, document, app>>

\* retriever.get_relevant_experience(job_description, num_chunks)
GetRelevantExperienceOf(maxK) ==
  /\ pc = "idle"
  /\ retriever.live
  /\ \E query_embedding \in Responses, num_chunks \in 1..maxK :
       LET got == get_relevant_experience(retriever, query_embedding, num_chunks)
       IN  last' = Call("get_relevant_experience", <<>>, <<query_embedding>>, num_chunks,
                        got.raised, got.value, got.searched,
                        embed_query_requests(JobDescription))
  /\ UNCHANGED <<retriever, directory, pc, hist, document, app>>

\* retriever.save(directory), up to and including faiss.write_index
SaveIndex ==
  /\ pc = "idle"
  /\ retriever.live
  /\ directory' = [directory EXCEPT !.index_faiss = write_index(retriever.vector_store.index)]
  /\ pc' = "saving"
  /\ last' = Call("save", <<>>, <<>>, 0, "", <<>>, FALSE, <<>>)
  /\ UNCHANGED <<retriever, hist, document, app>>

\* the rest of save: store_data.pkl is opened and written
SaveData ==
  /\ pc = "saving"
  /\ directory' = [directory EXCEPT !.store_data = dump_store_data(retriever.vector_store)]
  /\ pc' = "idle"
  /\ UNCHANGED <<retriever, last, hist, document, app>>

\* save is interrupted between its two writes, before store_data.pkl is opened
SaveInterrupted ==
  /\ pc = "saving"
  /\ pc' = "idle"
  /\ last' = Call("save", <<>>, <<>>, 0, "KeyboardInterrupt", <<>>, FALSE, <<>>)
  /\ UNCHANGED <<retriever, directory, hist, document, app>>

\* retriever = ResumeRetriever.load(directory)
Load ==
  /\ pc = "idle"
  /\ \E test_embedding \in Responses :
       LET done == load_retriever(test_embedding, directory)
       IN  /\ retriever' = done.retriever
           /\ last' = Call("load", <<>>, <<test_embedding>>, 0, done.raised, <<>>, FALSE,
                            get_embedding_dimension_requests)
           /\ hist' = [indexed |-> FALSE, restored |-> done.raised = ""]
  /\ UNCHANGED <<directory, pc, document, app>>

IndexResume == IndexResumeOf(MaxLines, MaxStore)

GetRelevantExperience == GetRelevantExperienceOf(MaxK)

\* Indexing and querying in memory.
Next ==
  \/ Construct
  \/ IndexResume
  \/ GetRelevantExperience

Spec == Init /\ [][Next]_vars

PersistIndexResume == IndexResumeOf(PersistLines, PersistStore)

PersistGetRelevantExperience == GetRelevantExperienceOf(PersistK)

\* The same with the directory: save in its two writes, and load.
NextPersist ==
  \/ Construct
  \/ PersistIndexResume
  \/ PersistGetRelevantExperience
  \/ SaveIndex
  \/ SaveData
  \/ SaveInterrupted
  \/ Load

SpecPersist == Init /\ [][NextPersist]_vars

AppendIndexResume == IndexResumeOf(AppendLines, AppendStore)

AppendGetRelevantExperience == GetRelevantExperienceOf(AppendK)

\* Indexing more than once, querying, completed saves and loads.
NextAppend ==
  \/ Construct
  \/ AppendIndexResume
  \/ AppendGetRelevantExperience
  \/ SaveIndex
  \/ SaveData
  \/ Load

SpecAppend == Init /\ [][NextAppend]_vars

\* The chunker alone: any text of MaxDocLines lines at most.
InitChunk ==
  /\ retriever = NoRetriever
  /\ directory = [index_faiss |-> NoIndexFile, store_data |-> NoDataFile]
  /\ pc = "idle"
  /\ last = Call("none", <<>>, <<>>, 0, "", <<>>, FALSE, <<>>)
  /\ hist = NoHist
  /\ document \in Resumes(MaxDocLines)
  /\ app = NoApp

\* chunks = self._chunk_resume(document)
ChunkResume ==
  /\ last' = Call("_chunk_resume", chunk_resume(document), <<>>, 0, "", <<>>, FALSE, <<>>)
  /\ UNCHANGED <<retriever, directory, pc, hist, document, app>>

NextChunk == ChunkResume

SpecChunk == InitChunk /\ [][NextChunk]_vars

\* ------------------------------------------------ process_job_application
\* The outcome of a call outside the model: "" when it returns, else the
\* exception.
Causes == {"", "Exception"}

InitApp ==
  /\ retriever = NoRetriever
  /\ directory = [index_faiss |-> NoIndexFile, store_data |-> NoDataFile]
  /\ pc = "parse_job_posting"
  /\ last = Call("none", <<>>, <<>>, 0, "", <<>>, FALSE, <<>>)
  /\ hist = NoHist
  /\ document = <<>>
  /\ app = NoApp

\* A statement that calls name at position at, with the message it raises.
Statement(at, name, msg, next) ==
  /\ pc = at
  /\ pc' = Outcome(app, name, msg, next).pc
  /\ app' = Outcome(app, name, msg, next).app

\* create_llm, the two agents, job_parser.parse_job_posting(job_url)
ParseJobPosting ==
  /\ \E cause \in Causes :
       Statement("parse_job_posting", "parse_job_posting",
                 IF cause = "" THEN <<>> ELSE <<cause>>, "ResumeRetriever")
  /\ UNCHANGED <<retriever, directory, last, hist, document>>

\* retriever = ResumeRetriever()
MakeRetriever ==
  /\ \E test_embedding \in Responses :
       LET made == ResumeRetriever(test_embedding)
       IN  /\ Statement("ResumeRetriever", "ResumeRetriever",
                        IF made.raised = "" THEN <<>> ELSE <<made.raised>>,
                        "read_master_resume")
           /\ retriever' = made.retriever
  /\ UNCHANGED <<directory, last, hist, document>>

\* with open(master_resume_path, 'r') as f: master_resume = f.read()
ReadMasterResume ==
  /\ \/ /\ Statement("read_master_resume", "open", <<"FileNotFoundError">>, "index_resume")
        /\ UNCHANGED document
     \/ /\ Statement("read_master_resume", "open", <<>>, "index_resume")
        /\ document' \in Resumes(AppLines)
  /\ UNCHANGED <<retriever, directory, last, hist>>

\* retriever.index_resume(master_resume)
IndexMasterResume ==
  /\ \E responses \in [1..Len(chunk_resume(document)) -> Responses] :
       LET done == index_resume(retriever, document, responses)
       IN  /\ Statement("index_resume", "index_resume",
                        IF done.raised = "" THEN <<>> ELSE <<done.raised>>,
                        "get_relevant_experience")
           /\ retriever' = done.retriever
  /\ hist' = [hist EXCEPT !.indexed = TRUE]
  /\ UNCHANGED <<directory, last, document>>

\* relevant_experience = retriever.get_relevant_experience(job_description)
RetrieveRelevantExperience ==
  /\ \E query_embedding \in Responses :
       LET got == get_relevant_experience(retriever, query_embedding, DefaultNumChunks)
       IN  Statement("get_relevant_experience", "get_relevant_experience",
                     IF got.raised = "" THEN <<>> ELSE <<got.raised>>, "makedirs")
  /\ UNCHANGED <<retriever, directory, last, hist, document>>

\* os.makedirs(output_dir, exist_ok=True)
MakeOutputDir ==
  /\ \E cause \in Causes :
       Statement("makedirs", "makedirs",
                 IF cause = "" THEN <<>> ELSE <<cause>>, "read_template")
  /\ UNCHANGED <<retriever, directory, last, hist, document>>

\* resume_agent.generate_application_documents(...) is entered: the master
\* resume is read as the template
ReadTemplate ==
  /\ \E cause \in Causes :
       Statement("read_template", "generate_application_documents",
                 IF cause = "" THEN <<>>
                 ELSE <<FailedTo("generate_application_documents"), cause>>,
                 "_generate_resume_content")
  /\ UNCHANGED <<retriever, directory, last, hist, document>>

\* A method of ResumeAgent called by generate_application_documents.
AgentStep(at, name, next) ==
  /\ \E cause \in Causes : Statement(at, name, Wrapped(name, cause), next)
  /\ UNCHANGED <<retriever, directory, last, hist, document>>

\* resume_data = self._generate_resume_content(job_data, relevant_experience, template)
GenerateResumeContent ==
  AgentStep("_generate_resume_content", "_generate_resume_content", "_generate_latex_content")

\* latex_content = self._generate_latex_content(resume_data, template)
GenerateLatexContent ==
  AgentStep("_generate_latex_content", "_generate_latex_content", "_compile_latex")

\* self._compile_latex(latex_content, output_dir) is entered: ensure_dir and
\* the writing of resume.tex
CompileLatex ==
  AgentStep("_compile_latex", "_compile_latex", "pdflatex_1")

\* A run of pdflatex with check=True inside _compile_latex.
Pdflatex(at, next) ==
  /\ \E cause \in {"", "CalledProcessError"} :
       Statement(at, "pdflatex", Wrapped("_compile_latex", cause), next)
  /\ UNCHANGED <<retriever, directory, last, hist, document>>

PdflatexFirst == Pdflatex("pdflatex_1", "pdflatex_2")

PdflatexSecond == Pdflatex("pdflatex_2", "_generate_supporting_documents")

\* supporting_docs = self._generate_supporting_documents(...), then the
\* return of generate_application_documents
GenerateSupportingDocuments ==
  AgentStep("_generate_supporting_documents", "_generate_supporting_documents",
            "analyze_resume_optimization")

\* optimization_results = resume_agent.analyze_resume_optimization(...)
AnalyzeResumeOptimization ==
  /\ \E cause \in Causes :
       Statement("analyze_resume_optimization", "analyze_resume_optimization",
                 IF cause = "" THEN <<>>
                 ELSE <<FailedTo("analyze_resume_optimization"), cause>>,
                 "write_report")
  /\ UNCHANGED <<retriever, directory, last, hist, document>>

\* open(optimization_path, 'w') and json.dump: when it raises, the file may
\* have been created already
WriteReport ==
  /\ pc = "write_report"
  /\ \E cause \in Causes, created \in BOOLEAN :
       LET out == Outcome(app, "json.dump", IF cause = "" THEN <<>> ELSE <<cause>>,
                          "print_summary")
       IN  /\ cause = "" => created
           /\ pc' = out.pc
           /\ app' = [out.app EXCEPT !.report = created]
  /\ UNCHANGED <<retriever, directory, last, hist, document>>

\* the closing prints, which read optimization_results['overall_match_score'],
\* and return output_files
PrintSummary ==
  /\ \E cause \in {"", "KeyError"} :
       Statement("print_summary", "print", IF cause = "" THEN <<>> ELSE <<cause>>,
                 "returned")
  /\ UNCHANGED <<retriever, directory, last, hist, document>>

NextApp ==
  \/ ParseJobPosting
  \/ MakeRetriever
  \/ ReadMasterResume
  \/ IndexMasterResume
  \/ RetrieveRelevantExperience
  \/ MakeOutputDir
  \/ ReadTemplate
  \/ GenerateResumeContent
  \/ GenerateLatexContent
  \/ CompileLatex
  \/ PdflatexFirst
  \/ PdflatexSecond
  \/ GenerateSupportingDocuments
  \/ AnalyzeResumeOptimization
  \/ WriteReport
  \/ PrintSummary

SpecApp == InitApp /\ [][NextApp]_vars

\* ------------------------------------------------------------ properties
store == retriever.vector_store

IsCall(op) == last.op = op

\* The response to the only request of the latest construct, load or
\* get_relevant_experience call.
TheResponse == last.responses[1]

RECURSIVE Successful(_, _)
\* The items of a list whose chunk's response was a usable embedding.
Successful(items, responses) ==
  IF items = <<>> THEN <<>>
  ELSE IF Truthy(Head(responses))
       THEN <<Head(items)>> \o Successful(Tail(items), Tail(responses))
       ELSE Successful(Tail(items), Tail(responses))

ResponseVectors(responses) == [i \in 1..Len(responses) |-> responses[i].v]

\* A vector store extended by exactly the successfully embedded chunks, each
\* vector beside the text and metadata of its own chunk.
WithSuccessful(vs, chunks, responses) ==
  [vs EXCEPT !.index.xb = @ \o Successful(ResponseVectors(responses), responses),
             !.texts = @ \o Successful(ChunkTexts(chunks), responses),
             !.metadata = @ \o Successful(ChunkMetadatas(chunks), responses)]

\* C1: whenever index_resume returns, the vector store has gained exactly one
\* entry per successfully embedded chunk and none for a failed one, each
\* vector stored at the position of the text and metadata of its own chunk.
C1_PartialFailureAlignment ==
  [][(last'.op = "index_resume" /\ last'.raised = "")
       => retriever'.vector_store
            = WithSuccessful(retriever.vector_store, last'.chunks, last'.responses)]_vars

\* C2: the index holds as many vectors as the store holds texts and metadata
\* records, in every state.
C2_ParallelArrays ==
  /\ Len(store.index.xb) = Len(store.texts)
  /\ Len(store.texts) = Len(store.metadata)

\* C3: a search for more items than the n >= 1 the store holds returns n
\* records, none of them a padding record (faiss's distance for a missing
\* neighbour).
C3_SearchBeyondSize ==
  (/\ IsCall("get_relevant_experience")
   /\ last.raised = ""
   /\ Len(store.texts) >= 1
   /\ Len(store.index.xb) = Len(store.texts)
   /\ last.num_chunks > Len(store.texts))
    => /\ Len(last.value) = Len(store.texts)
       /\ \A i \in 1..Len(last.value) : last.value[i].distance # FLT_MAX

C5_ReindexRejected ==
  [][(last'.op = "index_resume" /\ last' # last /\ (hist.indexed \/ hist.restored))
       => (last'.raised # "" /\ retriever' = retriever)]_vars

\* The texts and embeddings index_resume passes to add_texts.
PassedEmbeddings(call) == embed_documents(call.responses)

\* C6: every stored vector has the length of the vector store's dimension, and
\* an add call with an embedding of another length raises and leaves the
\* vector store as it was.
C6_DimensionInvariant ==
  [][/\ \A i \in 1..Len(retriever'.vector_store.index.xb) :
          Len(retriever'.vector_store.index.xb[i]) = retriever'.vector_store.dimension
     /\ (/\ last'.op = "index_resume" /\ last' # last
         /\ last'.chunks # <<>>
         /\ \E i \in 1..Len(PassedEmbeddings(last')) :
              Len(PassedEmbeddings(last')[i]) # retriever.vector_store.dimension)
          => (last'.raised # "" /\ retriever'.vector_store = retriever.vector_store)]_vars

\* C7: when embedding the job description fails, get_relevant_experience
\* raises without searching the vector store, and returns no list.
C7_QueryEmbeddingFailureRaises ==
  (IsCall("get_relevant_experience") /\ ~Truthy(TheResponse))
    => (last.raised # "" /\ ~last.searched /\ last.value = <<>>)

\* C7 witness: the embedding failed on a retriever whose store holds chunks.
C7_Witness ==
  /\ IsCall("get_relevant_experience")
  /\ ~Truthy(TheResponse)
  /\ store.texts # <<>>
  /\ store.index.xb # <<>>

\* C8: a construction whose calibration yields no dimension raises and makes
\* no retriever; a constructed retriever's dimension is the positive length of
\* the calibration embedding; index_resume, get_relevant_experience and save
\* leave the dimension as it was.
C8_DimensionFixedAtConstruction ==
  [][/\ (last'.op = "construct" /\ ~Truthy(last'.responses[1]))
          => (last'.raised # "" /\ ~retriever'.live)
     /\ (last'.op = "construct" /\ last'.raised = "")
          => /\ retriever'.live
             /\ retriever'.dimension > 0
             /\ retriever'.dimension = Len(last'.responses[1].v)
             /\ retriever'.vector_store = FAISSVectorStore(retriever'.dimension)
     /\ (last'.op \in {"index_resume", "get_relevant_experience", "save"})
          => (retriever'.live /\ retriever'.dimension > 0
              /\ retriever'.dimension = retriever.dimension)]_vars

\* C8 witness: a retriever of the largest dimension was constructed, indexed
\* a chunk and was saved.
C8_Witness ==
  /\ IsCall("save") /\ pc = "idle" /\ last.raised = ""
  /\ hist.indexed
  /\ retriever.dimension = MaxDim
  /\ store.texts # <<>>
  /\ directory.store_data.present

\* C9: a retriever that load returned has the dimension its restored vector
\* store records.
C9_LoadDimensionConsistent ==
  (IsCall("load") /\ last.raised = "")
    => retriever.dimension = store.dimension

\* C10: the directory never holds one of index.faiss and store_data.pkl
\* without the other.
C10_SaveAtomic ==
  directory.index_faiss.present = directory.store_data.present

\* Queries of one component at least.
Queries == Embeddings \ {<<>>}

\* C11: when save completes, a load of the directory raises nothing and
\* yields a vector store with the dimension, texts and metadata of the saved
\* one, whose search returns the same records for every query and k.
C11_SaveLoadRoundTrip ==
  [][(pc = "saving" /\ pc' = "idle" /\ last'.raised = "")
       => LET loaded == load_vector_store(directory')
              V == retriever.vector_store
          IN  /\ loaded.raised = ""
              /\ loaded.vs.dimension = V.dimension
              /\ loaded.vs.texts = V.texts
              /\ loaded.vs.metadata = V.metadata
              /\ \A q \in Queries : \A k \in 1..MaxK :
                    similarity_search(loaded.vs, q, k) = similarity_search(V, q, k)]_vars

\* C11 witness: a retriever was loaded from a directory holding the complete
\* save of a store with a chunk and its vector.
C11_Witness ==
  /\ IsCall("load") /\ last.raised = ""
  /\ store.texts # <<>>
  /\ store.index.xb # <<>>
  /\ directory.store_data.texts = store.texts
  /\ read_index(directory.index_faiss) = store.index

\* The directory without one of its two files.
WithoutIndexFile(dir) == [dir EXCEPT !.index_faiss = NoIndexFile]

WithoutDataFile(dir) == [dir EXCEPT !.store_data = NoDataFile]

\* C12: a load from a directory in which index.faiss or store_data.pkl is
\* missing raises and returns no retriever; so does a load of the directory
\* with either file taken away.
C12_LoadNeedsBothFiles ==
  /\ (IsCall("load")
       /\ (~directory.index_faiss.present \/ ~directory.store_data.present))
        => (last.raised # "" /\ ~retriever.live)
  /\ \A test_embedding \in Responses :
       \A dir \in {WithoutIndexFile(directory), WithoutDataFile(directory)} :
         /\ load_vector_store(dir).raised # ""
         /\ load_retriever(test_embedding, dir).raised # ""
         /\ ~load_retriever(test_embedding, dir).retriever.live

\* C12 witness: with index.faiss written and store_data.pkl missing, a load
\* whose calibration succeeded raised for the missing file.
C12_Witness ==
  /\ IsCall("load")
  /\ directory.index_faiss.present /\ ~directory.store_data.present
  /\ Truthy(TheResponse)
  /\ last.raised = "FileNotFoundError"

\* ------------------------------------------------------------- the chunker
HasSection(doc) == \E i \in 1..Len(doc) : section_match(doc[i]) # None

\* The position of the first section line; Len(doc) + 1 when there is none.
FirstSection(doc) ==
  IF HasSection(doc)
  THEN CHOOSE i \in 1..Len(doc) :
         /\ section_match(doc[i]) # None
         /\ \A j \in 1..(i - 1) : section_match(doc[j]) = None
  ELSE Len(doc) + 1

\* The lines of the chunks, chunk after chunk.
ChunkLines(chunks) == Flatten(ChunkTexts(chunks))

ChunkSections(chunks) == [c \in 1..Len(chunks) |-> chunks[c].metadata.section]

\* C13: the lines of the chunks, chunk after chunk, are the lines of the
\* document from its first section line to its end, in order.
C13_ChunkCoverage ==
  IsCall("_chunk_resume")
    => ChunkLines(last.chunks) = SubSeq(document, FirstSection(document), Len(document))

\* C13 witness: a document whose first line is before any section, chunked
\* into a section's chunk and a subsection's.
C13_Witness ==
  /\ IsCall("_chunk_resume")
  /\ FirstSection(document) = 2
  /\ \E i \in 1..Len(document) : subsection_match(document[i])
  /\ Len(last.chunks) = 2

\* The chunks holding line i of the document, when the first chunk starts at
\* line from and each chunk starts where the one before it ends.
Holding(chunks, doc, from, i) ==
  {c \in 1..Len(chunks) :
     LET j == i - (from - 1) - Len(ChunkLines(SubSeq(chunks, 1, c - 1)))
     IN  j \in 1..Len(chunks[c].text) /\ chunks[c].text[j] = doc[i]}

\* C14 as stated: in a document with a section line, every line, the lines
\* before the first section line included, is in exactly one chunk.
C14_EveryLineInOneChunk ==
  (IsCall("_chunk_resume") /\ HasSection(document))
    => \A i \in 1..Len(document) :
         Cardinality(Holding(last.chunks, document, 1, i)) = 1

\* C14 amended: in a document with a section line, every line from the first
\* section line on is in exactly one chunk, and the lines before it are in
\* none: the chunks hold no other line.
C14_LinesBeforeFirstSectionDropped ==
  (IsCall("_chunk_resume") /\ HasSection(document))
    => /\ \A i \in 1..Len(document) :
            Cardinality(Holding(last.chunks, document, FirstSection(document), i))
              = IF i >= FirstSection(document) THEN 1 ELSE 0
       /\ Len(ChunkLines(last.chunks)) = Len(document) - FirstSection(document) + 1

\* C14 witness: two lines precede the first section line of the document.
C14_Witness ==
  /\ IsCall("_chunk_resume")
  /\ FirstSection(document) = 3
  /\ Len(document) > 3
  /\ last.chunks # <<>>

\* An Experience section with one subsection line, then an Education
\* section with none; lines matching neither pattern anywhere after the first.
ExperienceThenEducation(doc) ==
  /\ Len(doc) >= 3
  /\ doc[1] = [kind |-> "section", name |-> "Experience"]
  /\ \E i, j \in 2..Len(doc) :
       /\ i < j
       /\ subsection_match(doc[i])
       /\ doc[j] = [kind |-> "section", name |-> "Education"]
       /\ \A l \in 2..Len(doc) : l \notin {i, j} => doc[l].kind = "plain"

\* C15 as stated: such a document yields two chunks, of Experience and of
\* Education.
C15_TwoChunks ==
  (IsCall("_chunk_resume") /\ ExperienceThenEducation(document))
    => ChunkSections(last.chunks) = <<"Experience", "Education">>

\* C15 amended: such a document yields three chunks, two of Experience (the
\* lines before the subsection line, and the lines from it on) and one of
\* Education.
C15_ThreeChunks ==
  (IsCall("_chunk_resume") /\ ExperienceThenEducation(document))
    => ChunkSections(last.chunks) = <<"Experience", "Experience", "Education">>

\* C15 witness: such a document of four lines.
C15_Witness ==
  /\ IsCall("_chunk_resume")
  /\ ExperienceThenEducation(document)
  /\ Len(document) = 4

\* C16: _chunk_resume raises nothing; a document without a section line
\* yields no chunk, and index_resume of it on a new retriever raises nothing
\* and leaves the vector store empty.
C16_NoSectionNoChunk ==
  IsCall("_chunk_resume")
    => /\ last.raised = ""
       /\ ~HasSection(document)
            => /\ last.chunks = <<>>
               /\ \A test_embedding \in {r \in Responses : Truthy(r)} :
                    LET r == ResumeRetriever(test_embedding).retriever
                        done == index_resume(r, document, <<>>)
                    IN  /\ done.raised = ""
                        /\ done.retriever.vector_store = FAISSVectorStore(r.dimension)

\* C16 witness: a document of subsection lines and other lines, no section
\* line among them.
C16_Witness ==
  /\ IsCall("_chunk_resume")
  /\ ~HasSection(document)
  /\ Len(document) = MaxDocLines
  /\ \E i \in 1..Len(document) : subsection_match(document[i])
  /\ last.chunks = <<>>

\* ---------------------------------------------------------------- search
\* The record of the stored chunk at position p for the query q.
RecordOf(vs, p, q) ==
  [text |-> vs.texts[p], metadata |-> vs.metadata[p],
   distance |-> L2sqr(vs.index.xb[p], q)]

\* Whether position p of the store holds a chunk with its vector.
Stored(vs, p) ==
  p \in 1..Len(vs.texts) /\ p \in 1..Len(vs.metadata) /\ p \in 1..Len(vs.index.xb)

\* C17: on a retriever holding n chunks, get_relevant_experience with
\* 1 <= num_chunks <= n and a query embedding of the index's dimension
\* returns num_chunks records: the records of distinct stored chunks, nearest
\* first, no stored chunk left out being nearer than the last one returned.
C17_ReturnsKNearest ==
  (/\ IsCall("get_relevant_experience")
   /\ Truthy(TheResponse)
   /\ Len(TheResponse.v) = store.index.d
   /\ last.num_chunks <= Len(store.texts))
    => /\ last.raised = ""
       /\ Len(last.value) = last.num_chunks
       /\ \E p \in [1..last.num_chunks -> 1..Len(store.texts)] :
            /\ \A i, j \in 1..last.num_chunks : p[i] = p[j] => i = j
            /\ \A i \in 1..last.num_chunks :
                 /\ Stored(store, p[i])
                 /\ last.value[i] = RecordOf(store, p[i], TheResponse.v)
            /\ \A i \in 1..(last.num_chunks - 1) :
                 last.value[i].distance <= last.value[i + 1].distance
            /\ \A o \in 1..Len(store.index.xb) :
                 (\A i \in 1..last.num_chunks : p[i] # o)
                   => last.value[last.num_chunks].distance
                        <= L2sqr(store.index.xb[o], TheResponse.v)

\* C18: the records a search of a populated index returns, for num_chunks
\* above the number stored too, are in non-decreasing order of distance.
C18_DistancesNonDecreasing ==
  (/\ IsCall("get_relevant_experience")
   /\ last.searched
   /\ store.index.xb # <<>>)
    => \A i \in 1..(Len(last.value) - 1) :
         last.value[i].distance <= last.value[i + 1].distance

\* C18 witness: a search for more records than the two vectors stored, at
\* different distances from the query, returned three records.
C18_Witness ==
  /\ IsCall("get_relevant_experience")
  /\ last.raised = ""
  /\ Len(store.index.xb) = 2
  /\ L2sqr(store.index.xb[1], TheResponse.v) > L2sqr(store.index.xb[2], TheResponse.v)
  /\ last.num_chunks = 3
  /\ Len(last.value) = 3

\* C19: when index_resume returns, a search with num_chunks = 1 for the
\* embedding of a chunk it stored, no other stored vector being equal to
\* it, returns one record, with the text of that chunk and distance 0.
C19_TopOneExact ==
  [][(last'.op = "index_resume" /\ last'.raised = "")
       => \A c \in 1..Len(last'.chunks) :
            LET v == last'.responses[c].v
                vs == retriever'.vector_store
                found == similarity_search(vs, v, 1)
            IN  (/\ Truthy(last'.responses[c])
                 /\ Cardinality({i \in 1..Len(vs.index.xb) : vs.index.xb[i] = v}) = 1)
                  => /\ found.raised = ""
                     /\ Len(found.value) = 1
                     /\ found.value[1].text = last'.chunks[c].text
                     /\ found.value[1].distance = 0]_vars

\* C20: a search of a vector store that holds nothing, with a query of the
\* index's dimension, raises nothing and returns the empty list.
C20_EmptyIndexEmptyResult ==
  (/\ IsCall("get_relevant_experience")
   /\ last.searched
   /\ Len(TheResponse.v) = store.index.d
   /\ store.index.xb = <<>> /\ store.texts = <<>> /\ store.metadata = <<>>)
    => (last.raised = "" /\ last.value = <<>>)

\* C21: an index_resume whose chunk list is empty, or for which no chunk was
\* embedded, so that add_texts is given an empty texts or embeddings list,
\* raises nothing and leaves the vectors, texts and metadata as they were.
C21_EmptyAddIsNoOp ==
  [][(/\ last'.op = "index_resume"
      /\ (last'.chunks = <<>> \/ PassedEmbeddings(last') = <<>>))
       => /\ last'.raised = ""
          /\ retriever'.vector_store.index.xb = retriever.vector_store.index.xb
          /\ retriever'.vector_store.texts = retriever.vector_store.texts
          /\ retriever'.vector_store.metadata = retriever.vector_store.metadata]_vars

\* C21 witness: on a store already holding a chunk, index_resume of a resume
\* with a chunk whose embedding failed returned.
C21_Witness ==
  /\ IsCall("index_resume")
  /\ last.chunks # <<>>
  /\ PassedEmbeddings(last) = <<>>
  /\ last.raised = ""
  /\ Len(store.texts) = 1 /\ Len(store.index.xb) = 1

\* The positions of the responses that carry an embedding, and the j-th of
\* them in order.
Succeeded(responses) == {i \in 1..Len(responses) : Truthy(responses[i])}

NthSucceeded(responses, j) ==
  CHOOSE i \in Succeeded(responses) :
    Cardinality({h \in Succeeded(responses) : h <= i}) = j

\* C22: embed_documents returns one embedding per text whose request
\* succeeded, the j-th entry being the embedding of the j-th such text, and
\* nothing for a failed text, whatever its position; these are the vectors
\* an index_resume that raises nothing appends to the index.
C22_EmbedManyDropsFailures ==
  [][(last'.op = "index_resume")
       => LET responses == last'.responses
              out == embed_documents(responses)
          IN  /\ Len(out) = Cardinality(Succeeded(responses))
              /\ \A j \in 1..Len(out) : out[j] = responses[NthSucceeded(responses, j)].v
              /\ (last'.raised = "" /\ retriever' # retriever)
                   => /\ Len(retriever'.vector_store.index.xb)
                           = Len(retriever.vector_store.index.xb)
                               + Cardinality(Succeeded(responses))
                      /\ \A j \in 1..Cardinality(Succeeded(responses)) :
                           retriever'.vector_store.index.xb
                               [Len(retriever.vector_store.index.xb) + j]
                             = responses[NthSucceeded(responses, j)].v]_vars

\* C22 witness: the first chunk's request failed, the second chunk's
\* succeeded and its embedding is the one vector in the index.
C22_Witness ==
  /\ IsCall("index_resume")
  /\ Len(last.responses) = 2
  /\ last.responses[1].none
  /\ Truthy(last.responses[2])
  /\ last.raised = ""
  /\ store.index.xb = <<last.responses[2].v>>

\* The line of the document at which chunk c starts, the first chunk
\* starting at the first section line.
StartOf(chunks, doc, c) ==
  FirstSection(doc) + Len(ChunkLines(SubSeq(chunks, 1, c - 1)))

\* The name captured by the latest section line at or before line i.
LatestSection(doc, i) ==
  LET at == CHOOSE j \in 1..i :
              /\ section_match(doc[j]) # None
              /\ \A h \in (j + 1)..i : section_match(doc[h]) = None
  IN  section_match(doc[at])

\* C24: a subsection line after the first section line starts a chunk: the
\* lines before it end the chunk before, both chunks carry the name of the
\* section the line is in. A subsection line before any section line starts
\* no chunk, and the chunks are those of the document with a line matching
\* neither pattern in its place.
C24_SubsectionStartsChunkInsideSection ==
  IsCall("_chunk_resume")
    => \A i \in 1..Len(document) :
         subsection_match(document[i])
           => IF i > FirstSection(document)
              THEN \E c \in 2..Len(last.chunks) :
                     /\ StartOf(last.chunks, document, c) = i
                     /\ last.chunks[c].text[1] = document[i]
                     /\ last.chunks[c].metadata.section = LatestSection(document, i)
                     /\ last.chunks[c - 1].metadata.section = LatestSection(document, i)
                     /\ last.chunks[c - 1].text # <<>>
              ELSE /\ \A c \in 1..Len(last.chunks) :
                        StartOf(last.chunks, document, c) # i
                   /\ last.chunks
                        = chunk_resume([document EXCEPT
                                          ![i] = [kind |-> "plain", name |-> ""]])

\* C24 witness: a subsection line before the first section line and one
\* after it; the second starts the second chunk.
C24_Witness ==
  /\ IsCall("_chunk_resume")
  /\ Len(document) >= 4
  /\ subsection_match(document[2])
  /\ FirstSection(document) = 3
  /\ subsection_match(document[4])
  /\ Len(last.chunks) = 2

\* The positions of the marker lines that count: every section line, and
\* every subsection line after the first section line.
Markers(doc) ==
  {i \in 1..Len(doc) :
     \/ section_match(doc[i]) # None
     \/ subsection_match(doc[i]) /\ i > FirstSection(doc)}

NthMarker(doc, n) ==
  CHOOSE i \in Markers(doc) : Cardinality({h \in Markers(doc) : h <= i}) = n

\* C25: there are as many chunks as marker lines (section lines, and
\* subsection lines after the first section line); the i-th chunk starts at
\* the i-th marker line, which is its first line, and carries the name of
\* the latest section line at or before that line.
C25_ChunksMatchMarkers ==
  IsCall("_chunk_resume")
    => /\ Len(last.chunks) = Cardinality(Markers(document))
       /\ \A c \in 1..Len(last.chunks) :
            LET m == NthMarker(document, c)
            IN  /\ last.chunks[c].text # <<>>
                /\ last.chunks[c].text[1] = document[m]
                /\ StartOf(last.chunks, document, c) = m
                /\ last.chunks[c].metadata.section = LatestSection(document, m)

\* C25 witness: a document of two sections, the first with a subsection
\* line, chunked into three chunks.
C25_Witness ==
  /\ IsCall("_chunk_resume")
  /\ Cardinality(Markers(document)) = 3
  /\ \E i \in Markers(document) : subsection_match(document[i])
  /\ \E i \in 1..Len(document) : document[i].kind = "plain"
  /\ Len(last.chunks) = 3
  /\ last.chunks[1].metadata.section # last.chunks[3].metadata.section

IsPrefix(s, t) == Len(s) <= Len(t) /\ SubSeq(t, 1, Len(s)) = s

\* C26: index_resume, get_relevant_experience and save keep every stored
\* vector, text and metadata record at its position: the lists before are
\* prefixes of the lists after; get_relevant_experience and save leave the
\* vector store as it was; a store that holds texts holds texts afterwards.
C26_StoreOnlyGrows ==
  [][(last'.op \in {"index_resume", "get_relevant_experience", "save"})
       => /\ IsPrefix(retriever.vector_store.texts, retriever'.vector_store.texts)
          /\ IsPrefix(retriever.vector_store.metadata, retriever'.vector_store.metadata)
          /\ IsPrefix(retriever.vector_store.index.xb, retriever'.vector_store.index.xb)
          /\ (last'.op \in {"get_relevant_experience", "save"})
               => retriever'.vector_store = retriever.vector_store
          /\ ((hist.indexed \/ hist.restored) /\ retriever.vector_store.texts # <<>>)
               => retriever'.vector_store.texts # <<>>]_vars

\* C26 witness: a retriever restored by load indexed a second resume and
\* was saved; its store holds the two chunks.
C26_Witness ==
  /\ IsCall("save") /\ pc = "idle"
  /\ hist.restored /\ hist.indexed
  /\ Len(store.texts) = 2 /\ Len(store.index.xb) = 2
  /\ store.texts[1] # store.texts[2]
  /\ directory.store_data.texts = store.texts

\* ------------------------------------------------ process_job_application
RetrievalSteps == {"ResumeRetriever", "index_resume", "get_relevant_experience"}

Invoked(name) == \E i \in 1..Len(app.invoked) : app.invoked[i] = name

\* C23: once the construction of the retriever, index_resume or
\* get_relevant_experience has raised in process_job_application, the run
\* has ended with that exception: the failed call is the last one made,
\* generate_application_documents and analyze_resume_optimization are never
\* called, and no optimization report is written.
C23_RetrievalFailureStops ==
  app.failed \in RetrievalSteps
    => /\ pc = "raised"
       /\ app.raised # <<>>
       /\ app.invoked[Len(app.invoked)] = app.failed
       /\ ~Invoked("generate_application_documents")
       /\ ~Invoked("analyze_resume_optimization")
       /\ ~Invoked("json.dump")
       /\ ~app.report

\* C23 witness: the master resume was indexed, and embedding the job
\* description failed.
C23_Witness ==
  /\ app.failed = "get_relevant_experience"
  /\ app.raised = <<"ValueError">>
  /\ store.texts # <<>>
  /\ pc = "raised"

\* C27: index_resume sends one request for each chunk, the chunks' texts in
\* order, whichever of them fail, and takes one response for each; the
\* construction of a retriever and get_relevant_experience send one request
\* each; no request is sent twice.
C27_OneRequestPerText ==
  /\ IsCall("index_resume")
       => /\ Len(last.requests) = Len(last.chunks)
          /\ last.requests = ChunkTexts(last.chunks)
          /\ Len(last.responses) = Len(last.requests)
  /\ IsCall("construct") => last.requests = <<TestPrompt>>
  /\ IsCall("get_relevant_experience") => last.requests = <<JobDescription>>

\* C27 witness: of the two requests of an index_resume of two chunks the
\* first failed.
C27_Witness ==
  /\ IsCall("index_resume")
  /\ Len(last.chunks) = 2
  /\ ~Truthy(last.responses[1])
  /\ Truthy(last.responses[2])
  /\ Len(last.requests) = 2

\* ------------------------------------------ generate_application_documents
\* The calls of generate_application_documents in the order of its body,
\* the two runs of pdflatex being those of _compile_latex.
AgentOrder ==
  <<"_generate_resume_content", "_generate_latex_content", "_compile_latex",
    "pdflatex", "pdflatex", "_generate_supporting_documents">>

AgentSteps == {AgentOrder[i] : i \in 1..Len(AgentOrder)}

IsAgentStep(name) == name \in AgentSteps

\* The calls generate_application_documents has made, in order.
AgentTrace == SelectSeq(app.invoked, IsAgentStep)

\* The method whose "Failed to ..." names a failed call: _compile_latex for
\* a run of pdflatex.
MethodOf(name) == IF name = "pdflatex" THEN "_compile_latex" ELSE name

C29_LoadCalibratesFirst ==
  [][(last'.op = "load")
       => /\ last'.requests = <<TestPrompt>>
          /\ ~Truthy(last'.responses[1])
               => /\ last'.raised = "ValueError"
                  /\ ~retriever'.live
                  /\ directory' = directory
                  /\ \A dir \in {directory, WithoutIndexFile(directory),
                                  WithoutDataFile(directory)} :
                       load_retriever(last'.responses[1], dir)
                         = [retriever |-> NoRetriever, raised |-> "ValueError"]]_vars

\* C29 witness: the calibration of a load failed while the directory held
\* the complete save of a store with a chunk.
C29_Witness ==
  /\ IsCall("load")
  /\ ~Truthy(TheResponse)
  /\ last.raised = "ValueError"
  /\ directory.index_faiss.present /\ directory.store_data.present
  /\ directory.store_data.texts # <<>>
  /\ read_index(directory.index_faiss).xb # <<>>
  /\ ~retriever.live

\* What the provider brought back that holds no embedding of one component
\* at least.
Unusable(raw) == raw.kind # "embedding" \/ raw.v = <<>>

\* C30: _call_ollama returns a false value for every response without an
\* embedding of one component at least; with such a value the construction
\* of a retriever raises and makes none, get_relevant_experience raises
\* without searching, and index_resume passes on no embedding for that
\* chunk; so no vector without components is stored or searched for.
C30_UnusableResponseIsFailure ==
  /\ \A raw \in RawResponses : Unusable(raw) <=> ~Truthy(call_ollama(raw))
  /\ (IsCall("construct") /\ ~Truthy(TheResponse))
       => (last.raised # "" /\ ~retriever.live)
  /\ (IsCall("get_relevant_experience") /\ ~Truthy(TheResponse))
       => (last.raised = "ValueError" /\ ~last.searched)
  /\ IsCall("index_resume")
       => /\ Len(PassedEmbeddings(last)) = Cardinality(Succeeded(last.responses))
          /\ \A i \in 1..Len(PassedEmbeddings(last)) : PassedEmbeddings(last)[i] # <<>>
  /\ \A i \in 1..Len(store.index.xb) : store.index.xb[i] # <<>>
  /\ last.searched => TheResponse.v # <<>>
  /\ retriever.live => retriever.dimension > 0

\* C30 witness: index_resume of two chunks was answered with an embedding
\* without components for the first and a usable one for the second, which
\* alone was stored.
C30_Witness ==
  /\ IsCall("index_resume")
  /\ Len(last.responses) = 2
  /\ last.responses[1] = [none |-> FALSE, v |-> <<>>]
  /\ Truthy(last.responses[2])
  /\ last.raised = ""
  /\ Len(store.index.xb) = 1

====
